---- MODULE Spec2Model ----
(***************************************************************************)
(* LandmarkNavigator server: the in-memory store and expiring cache        *)
(* (server/storage.ts), and the three query routes with their upstream     *)
(* fetchers (server/routes.ts, server/osmData.ts).                         *)
(*                                                                         *)
(* The specifications share the state:                                     *)
(*   CacheSpec    the cache methods of MemStorage called by any caller;     *)
(*   StoreSpec    the landmark and road methods called by any caller;       *)
(*   Spec         the express routes of registerRoutes serving requests.   *)
(*   FairSpec     Spec with the fairness the event loop gives;             *)
(*   FaultSpec    the routes over a storage whose writes may reject;       *)
(*   RepeatSpec   one bounds query received again and again;               *)
(*   HangSpec     queries whose upstream may never answer, fair handlers;  *)
(*   ParamSpec    the routes, the by-id route included, with well-formed   *)
(*                and ill-formed parameters;                               *)
(*   ByIdSpec     landmarks added and looked up by id;                     *)
(*   IdSpec       landmarks, roads and cache entries written in any order; *)
(*   RoadSpec     road queries one after another;                          *)
(*   KeySpec      queries whose parameters and texts probe the cache keys; *)
(*   ReplySpec    the routes with every await settling, fair handlers;     *)
(*   ClientSpec   the client's info panel (client/src/contexts/            *)
(*                MapContext.tsx).                                         *)
(***************************************************************************)
EXTENDS Integers, Sequences, FiniteSets, TLC

VARIABLES
  landmarks,           \* MemStorage.landmarks : Map<number, Landmark>
  roads,               \* MemStorage.roads     : Map<number, Road>
  cache,               \* MemStorage.cache     : Map<string, Cache>
  landmarksCurrentId,  \* MemStorage.landmarksCurrentId
  roadsCurrentId,      \* MemStorage.roadsCurrentId
  cacheCurrentId,      \* MemStorage.cacheCurrentId
  now,                 \* Math.floor(Date.now() / 1000)
  reqs,                \* the requests received so far, each with its handler's locals
  running,             \* the handler the event loop is running (0: none)
  received,            \* how many requests were received
  ret,                 \* the last method call, or the last response, and what it returned
  lastSet,             \* history: per key, the last setCache not followed by invalidateCache
  writes,              \* history: per key, the cache writes of the routes, in order
  failed,              \* history: the batches a failed handler left partly inserted
  isInfoVisible,       \* MapProvider state: the info panel is shown
  infoMessage,         \* MapProvider state: the panel's text
  infoType,            \* MapProvider state: 'info' | 'success' | 'error'
  timeouts,            \* the browser's pending setTimeout callbacks of showInfoMessage
  clientNow,           \* the browser's clock, in ms
  shown                \* history: the showInfoMessage calls, each with its due time

vars == <<landmarks, roads, cache, landmarksCurrentId, roadsCurrentId,
          cacheCurrentId, now, reqs, running, received, ret, lastSet, writes,
          failed, isInfoVisible, infoMessage, infoType, timeouts, clientNow, shown>>

storeVars == <<landmarks, roads, landmarksCurrentId, roadsCurrentId>>
cacheVars == <<cache, cacheCurrentId, lastSet>>
handlerVars == <<reqs, running, received, writes, failed>>
clientVars == <<isInfoVisible, infoMessage, infoType, timeouts, clientNow, shown>>

(***************************************************************************)
(* Bounds of the model.                                                    *)
(***************************************************************************)
MaxReq == 2          \* Spec, FaultSpec: requests received by the server
MaxRepeat == 3       \* RepeatSpec, RoadSpec: requests received by the server
MaxSets == 3         \* CacheSpec: setCache calls
MaxInserts == 2      \* StoreSpec: addLandmark calls, addRoad calls
MaxKeyReq == 2       \* KeySpec: requests received by the server
MaxReplyReq == 2     \* ReplySpec: requests received by the server
MaxShown == 3        \* ClientSpec: showInfoMessage calls
MaxHang == 2         \* HangSpec: requests received by the server

\* a mutant: the TTL in milliseconds
CacheDurationInMillis == 60 * 60 * 1000

\* routes.ts:9  const CACHE_DURATION = 60 * 60
CACHE_DURATION == 60 * 60

\* what a JS function returns for "no value"
Undefined == [undefined |-> TRUE]

(***************************************************************************)
(* The clock.  Date.now() is read in whole seconds; the instants that      *)
(* matter are a write, one TTL later, and the second after each.  A        *)
(* handler's run from one await to the next takes no time: the clock       *)
(* advances between runs.  ret describes a call made at the current        *)
(* instant (or the response just sent), so every later step clears it.    *)
(***************************************************************************)
ClockPoints == {0, 1, CACHE_DURATION, CACHE_DURATION + 1}

NoCall == [op |-> "none"]

Tick ==
  /\ running = 0
  /\ \E t \in ClockPoints : t > now /\ now' = t
  /\ ret' = NoCall
  /\ UNCHANGED <<storeVars, cacheVars, handlerVars, clientVars>>

(***************************************************************************)
(* Strings.  A string is a sequence of one-character strings, so that      *)
(* toLowerCase and trim are computed, not assumed.                         *)
(***************************************************************************)
LowerChar(c) ==
  CASE c = "A" -> "a"
    [] c = "B" -> "b"
    [] c = "L" -> "l"
    [] OTHER -> c

toLowerCase(s) == [i \in 1..Len(s) |-> LowerChar(s[i])]

RECURSIVE trimStart(_)
trimStart(s) ==
  IF s # <<>> /\ Head(s) = " " THEN trimStart(Tail(s)) ELSE s

RECURSIVE trimEnd(_)
trimEnd(s) ==
  IF s # <<>> /\ s[Len(s)] = " " THEN trimEnd(SubSeq(s, 1, Len(s) - 1)) ELSE s

trim(s) == trimEnd(trimStart(s))

AreaBuuLong == <<"b", "u", "u", " ", "l", "o", "n", "g">>

(***************************************************************************)
(* MemStorage (server/storage.ts).  A Map is a function on its keys; its   *)
(* values() come in insertion order, which for the id-keyed maps is the    *)
(* order of the ids.                                                       *)
(***************************************************************************)
MapDelete(m, k) == [x \in DOMAIN m \ {k} |-> m[x]]

MapSet(m, k, v) == [x \in DOMAIN m \cup {k} |-> IF x = k THEN v ELSE m[x]]

MapValues(m) ==
  [i \in 1..Cardinality(DOMAIN m) |->
     m[CHOOSE k \in DOMAIN m : Cardinality({j \in DOMAIN m : j < k}) = i - 1]]

\* { ...insert, id }
WithId(rec, id) ==
  [f \in DOMAIN rec \cup {"id"} |-> IF f = "id" THEN id ELSE rec[f]]

\* a mutant: the box without its border
InBoundsStrict(l, bounds) ==
  /\ l.coordinates[1] > bounds[1][1] /\ l.coordinates[1] < bounds[2][1]
  /\ l.coordinates[2] > bounds[1][2] /\ l.coordinates[2] < bounds[2][2]

\* storage.ts:63  lat >= swLat && lat <= neLat && lng >= swLng && lng <= neLng
InBounds(l, bounds) ==
  /\ l.coordinates[1] >= bounds[1][1] /\ l.coordinates[1] <= bounds[2][1]
  /\ l.coordinates[2] >= bounds[1][2] /\ l.coordinates[2] <= bounds[2][2]

getLandmarksByBounds(lm, bounds) ==
  LET keep(l) == InBounds(l, bounds)
  IN  SelectSeq(MapValues(lm), keep)

\* a mutant: the id taken as a position counted from 0
getLandmarkByPosition(lm, id) == IF id + 1 \in DOMAIN lm THEN lm[id + 1] ELSE Undefined

\* storage.ts:67-69  this.landmarks.get(id)
getLandmarkById(lm, id) == IF id \in DOMAIN lm THEN lm[id] ELSE Undefined

\* a mutant: the new landmark pushes the older ones out
addLandmarkEvicting(lm, nextId, insertLandmark) ==
  [id \in {nextId} |-> WithId(insertLandmark, nextId)]

\* a mutant: a landmark whose page is already stored is not stored again
addLandmarkOncePerPage(lm, nextId, insertLandmark) ==
  IF \E id \in DOMAIN lm : lm[id].pageId = insertLandmark.pageId
  THEN lm
  ELSE MapSet(lm, nextId, WithId(insertLandmark, nextId))

\* addLandmark / addRoad: the record stored under the counter's value
addLandmark(lm, nextId, insertLandmark) ==
  MapSet(lm, nextId, WithId(insertLandmark, nextId))

addRoad(rd, nextId, insertRoad) ==
  MapSet(rd, nextId, WithId(insertRoad, nextId))

\* a mutant: the areas compared as they are
getRoadsByAreaCaseSensitive(rd, area) ==
  LET keep(r) == r.area = area
  IN  SelectSeq(MapValues(rd), keep)

\* storage.ts:83-87  road.area.toLowerCase() === area.toLowerCase()
getRoadsByArea(rd, area) ==
  LET keep(r) == toLowerCase(r.area) = toLowerCase(area)
  IN  SelectSeq(MapValues(rd), keep)

\* a mutant: the comparison the wrong way round
IsExpiredInverted(cacheItem, t) == cacheItem.expiresAt > t

\* storage.ts:105 and :127  cacheItem.expiresAt < now
IsExpired(cacheItem, t) == cacheItem.expiresAt < t

\* a mutant: the whole cache is dropped
invalidateCacheAll(c, key) == <<>>

\* storage.ts:120-122
invalidateCache(c, key) == MapDelete(c, key)

\* what getCache returns
getCache(c, key, t) ==
  IF key \notin DOMAIN c THEN Undefined
  ELSE IF IsExpired(c[key], t) THEN Undefined
  ELSE c[key]

\* a mutant: a read of a live entry renews it for another hour
getCacheEffectRenewing(c, key, t) ==
  IF key \notin DOMAIN c THEN c
  ELSE IF IsExpired(c[key], t) THEN invalidateCache(c, key)
  ELSE [c EXCEPT ![key].expiresAt = t + CACHE_DURATION]

\* the cache after getCache: an expired entry is deleted by the read
getCacheEffect(c, key, t) ==
  IF key \in DOMAIN c /\ IsExpired(c[key], t) THEN invalidateCache(c, key) ELSE c

\* a mutant: the id taken from the size of the map, not from the counter
setCacheIdFromSize(c, nextId, insertCache) ==
  MapSet(c, insertCache.key, WithId(insertCache, Cardinality(DOMAIN c) + 1))

\* a mutant: a key already present keeps its entry
setCacheKeepingFirst(c, nextId, insertCache) ==
  IF insertCache.key \in DOMAIN c THEN c
  ELSE MapSet(c, insertCache.key, WithId(insertCache, nextId))

\* storage.ts:113-118
setCache(c, nextId, insertCache) ==
  MapSet(c, insertCache.key, WithId(insertCache, nextId))

\* a mutant: a pass that deletes one expired entry and stops
cleanExpiredCacheOnePerPass(c, t) ==
  LET expired == {x \in DOMAIN c : c[x].expiresAt < t}
  IN  IF expired = {} THEN c
      ELSE [k \in DOMAIN c \ {CHOOSE x \in expired : TRUE} |-> c[k]]

\* a mutant: the pass also deletes the entries that expire this second
cleanExpiredCacheInclusive(c, t) ==
  [k \in {x \in DOMAIN c : c[x].expiresAt > t} |-> c[k]]

\* storage.ts:124-131: every entry with expiresAt < now is deleted
cleanExpiredCache(c, t) ==
  [k \in {x \in DOMAIN c : ~IsExpired(c[x], t)} |-> c[k]]

(***************************************************************************)
(* Initial state: a fresh MemStorage (storage.ts:41-48), no request yet.   *)
(***************************************************************************)
Init ==
  /\ landmarks = <<>>
  /\ roads = <<>>
  /\ cache = <<>>
  /\ landmarksCurrentId = 1
  /\ roadsCurrentId = 1
  /\ cacheCurrentId = 1
  /\ now = 0
  /\ reqs = <<>>
  /\ running = 0
  /\ received = 0
  /\ writes = <<>>
  /\ failed = {}
  /\ isInfoVisible = FALSE
  /\ infoMessage = ""
  /\ infoType = "info"
  /\ timeouts = {}
  /\ clientNow = 0
  /\ shown = <<>>
  /\ ret = NoCall
  /\ lastSet = <<>>

(***************************************************************************)
(* CacheSpec: the cache methods of MemStorage called by an arbitrary       *)
(* caller with arbitrary arguments.                                        *)
(***************************************************************************)
Keys == {<<"k1">>, <<"k2">>}
Payloads == {<<"d1">>, <<"d2">>}

CallSetCache(k, d, t) ==
  /\ cacheCurrentId <= MaxSets
  /\ LET insertCache == [key |-> k, data |-> d, expiresAt |-> t]
     IN  /\ cache' = setCache(cache, cacheCurrentId, insertCache)
         /\ ret' = [op |-> "setCache", arg |-> k,
                    val |-> WithId(insertCache, cacheCurrentId), before |-> cache]
         /\ lastSet' = MapSet(lastSet, k, [data |-> d, expiresAt |-> t, at |-> now])
  /\ cacheCurrentId' = cacheCurrentId + 1
  /\ UNCHANGED <<storeVars, now, handlerVars, clientVars>>

CallGetCache(k) ==
  /\ ret' = [op |-> "getCache", arg |-> k, val |-> getCache(cache, k, now),
             before |-> cache]
  /\ cache' = getCacheEffect(cache, k, now)
  /\ UNCHANGED <<storeVars, cacheCurrentId, lastSet, now, handlerVars, clientVars>>

CallInvalidateCache(k) ==
  /\ cache' = invalidateCache(cache, k)
  /\ lastSet' = MapDelete(lastSet, k)
  /\ ret' = [op |-> "invalidateCache", arg |-> k, val |-> Undefined,
             before |-> cache,
             again |-> ret.op = "invalidateCache" /\ ret.arg = k]
  /\ UNCHANGED <<storeVars, cacheCurrentId, now, handlerVars, clientVars>>

\* ret keeps the cache as it was before the pass, and, when the call before
\* this one was a pass too (at the same instant: the clock clears ret), the
\* cache that pass left
CallCleanExpiredCache ==
  /\ cache' = cleanExpiredCache(cache, now)
  /\ ret' = [op |-> "cleanExpiredCache", arg |-> <<>>, val |-> Undefined,
             before |-> cache,
             again |-> ret.op = "cleanExpiredCache"]
  /\ UNCHANGED <<storeVars, cacheCurrentId, lastSet, now, handlerVars, clientVars>>

CacheNext ==
  \/ \E k \in Keys, d \in Payloads, t \in ClockPoints : CallSetCache(k, d, t)
  \/ \E k \in Keys : CallGetCache(k)
  \/ \E k \in Keys : CallInvalidateCache(k)
  \/ CallCleanExpiredCache
  \/ Tick

CacheSpec == Init /\ [][CacheNext]_vars

(***************************************************************************)
(* StoreSpec: the landmark and road methods of MemStorage called by an     *)
(* arbitrary caller with arbitrary arguments.                              *)
(***************************************************************************)
Points == {<<0, 0>>, <<1, 1>>, <<2, 1>>, <<1, 2>>}

LandmarkInputs ==
  {[pageId |-> 100 + 10 * p[1] + p[2], coordinates |-> p] : p \in Points}

Boxes == {<<<<0, 0>>, <<1, 1>>>>, <<<<1, 1>>, <<2, 2>>>>, <<<<2, 2>>, <<0, 0>>>>}

Areas == {AreaBuuLong,
          <<"B", "u", "u", " ", "L", "o", "n", "g">>,
          <<"b", "u", "u">>}

RoadInputs == {[name |-> "road", area |-> a] : a \in Areas}

CallAddLandmark(l) ==
  /\ landmarksCurrentId <= MaxInserts
  /\ landmarks' = addLandmark(landmarks, landmarksCurrentId, l)
  /\ landmarksCurrentId' = landmarksCurrentId + 1
  /\ ret' = [op |-> "addLandmark", arg |-> l,
             val |-> WithId(l, landmarksCurrentId)]
  /\ UNCHANGED <<roads, roadsCurrentId, cacheVars, now, handlerVars, clientVars>>

CallGetLandmarksByBounds(b) ==
  /\ ret' = [op |-> "getLandmarksByBounds", arg |-> b,
             val |-> getLandmarksByBounds(landmarks, b)]
  /\ UNCHANGED <<storeVars, cacheVars, now, handlerVars, clientVars>>

CallGetLandmarkById(id) ==
  /\ ret' = [op |-> "getLandmarkById", arg |-> id,
             val |-> getLandmarkById(landmarks, id)]
  /\ UNCHANGED <<storeVars, cacheVars, now, handlerVars, clientVars>>

\* a mutant: roads numbered from the landmarks' counter
CallAddRoadSharedCounter(r) ==
  /\ roadsCurrentId <= MaxInserts
  /\ roads' = addRoad(roads, landmarksCurrentId, r)
  /\ landmarksCurrentId' = landmarksCurrentId + 1
  /\ ret' = [op |-> "addRoad", arg |-> r,
             val |-> WithId(r, landmarksCurrentId)]
  /\ UNCHANGED <<landmarks, roadsCurrentId, cacheVars, now, handlerVars, clientVars>>

CallAddRoad(r) ==
  /\ roadsCurrentId <= MaxInserts
  /\ roads' = addRoad(roads, roadsCurrentId, r)
  /\ roadsCurrentId' = roadsCurrentId + 1
  /\ ret' = [op |-> "addRoad", arg |-> r,
             val |-> WithId(r, roadsCurrentId)]
  /\ UNCHANGED <<landmarks, landmarksCurrentId, cacheVars, now, handlerVars, clientVars>>

CallGetRoadsByArea(a) ==
  /\ ret' = [op |-> "getRoadsByArea", arg |-> a,
             val |-> getRoadsByArea(roads, a)]
  /\ UNCHANGED <<storeVars, cacheVars, now, handlerVars, clientVars>>

StoreNext ==
  \/ \E l \in LandmarkInputs : CallAddLandmark(l)
  \/ \E b \in Boxes : CallGetLandmarksByBounds(b)
  \/ \E id \in 0..(MaxInserts + 1) : CallGetLandmarkById(id)
  \/ \E r \in RoadInputs : CallAddRoad(r)
  \/ \E a \in Areas : CallGetRoadsByArea(a)

StoreSpec == Init /\ [][StoreNext]_vars

(***************************************************************************)
(* Upstream fetchers (server/routes.ts, server/osmData.ts).  An upstream   *)
(* answer is what the network gives back: a transport error, a body that   *)
(* is not JSON, a JSON body without the expected member, or the records.   *)
(***************************************************************************)
Failures == {[kind |-> "networkError"], [kind |-> "notJson"], [kind |-> "noQuery"]}

GeoP1 == [pageid |-> 111, lat |-> 1, lon |-> 1]
GeoP2 == [pageid |-> 121, lat |-> 2, lon |-> 1]

GeoAnswers ==
  Failures \cup {[kind |-> "ok", list |-> l] :
                   l \in {<<>>, <<GeoP1>>, <<GeoP1, GeoP2>>}}

SearchAnswers ==
  Failures \cup {[kind |-> "ok", list |-> l] :
                   l \in {<<>>, <<[pageid |-> 111, title |-> "a"]>>}}

\* how a call completes: it returns a value or it throws
Returned(v) == [threw |-> FALSE, value |-> v]
Thrown == [threw |-> TRUE, value |-> <<>>]

\* fetch(url) rejects on a transport error, response.json() on a body that is not JSON
FetchThrows(answer) == answer.kind \in {"networkError", "notJson"}

GeoLandmarks(list) ==
  [i \in 1..Len(list) |->
     [pageId |-> list[i].pageid, coordinates |-> <<list[i].lat, list[i].lon>>]]

\* a mutant: no try/catch around the fetch
fetchWikipediaLandmarksNoCatch(answer) ==
  IF FetchThrows(answer) THEN Thrown
  ELSE IF answer.kind = "noQuery" THEN Returned(<<>>)
  ELSE Returned(GeoLandmarks(answer.list))

\* routes.ts:180-217: [] on a thrown error (the catch) and on a body without
\* query.geosearch; else one landmark per geosearch item, in order
fetchWikipediaLandmarks(answer) ==
  IF FetchThrows(answer) THEN Returned(<<>>)
  ELSE IF answer.kind = "noQuery" THEN Returned(<<>>)
  ELSE Returned(GeoLandmarks(answer.list))

\* Array.prototype.slice(0, n)
SliceFirst(list, n) == SubSeq(list, 1, IF Len(list) < n THEN Len(list) ELSE n)

SearchResults(list) ==
  [i \in 1..Len(list) |-> [pageId |-> list[i].pageid, title |-> list[i].title]]

\* routes.ts:243-274: as above, for the first five search hits
searchWikipedia(answer) ==
  IF FetchThrows(answer) THEN Returned(<<>>)
  ELSE IF answer.kind = "noQuery" THEN Returned(<<>>)
  ELSE Returned(SearchResults(SliceFirst(answer.list, 5)))

FixtureNames ==
  <<"Duong Dong Khoi (Main East-West)",
     "Duong Huynh Van Nghe (East-West)",
     "Duong Phan Dinh Phung (East-West)",
     "Duong Pham Van Thuan (North-South)",
     "Duong Vo Thi Sau (North-South)",
     "Duong Nguyen Ai Quoc (North-South)",
     "Duong Hoang Dieu (North-South)",
     "Duong Buu Long (Major Diagonal)",
     "Duong Cach Mang Thang Tam (Diagonal)",
     "Duong Noi Bo DH Dong Nai (Campus - East)",
     "Duong Noi Bo DH Dong Nai (Campus - West)",
     "Hem 7 Dong Khoi (Connection)",
     "Hem 10 Dong Khoi (Connection)",
     "Duong Le Quy Don (East-West)",
     "Duong Tran Phu (East-West)",
     "Duong Phan Chu Trinh (North-South)">>

\* a mutant: the roads of a provider that is down, and no fixture behind it
fetchBuuLongRoadsNoFixture == <<>>

\* a mutant: a fixture cut short
fetchBuuLongRoadsTestData ==
  LET names == <<"Duong Dong Khoi", "Duong Pham Van Thuan", "Duong Vo Thi Sau">>
  IN  [i \in 1..Len(names) |-> [name |-> names[i], area |-> AreaBuuLong]]

\* a mutant: the predefined roads labelled with another area
fetchBuuLongRoadsOtherArea ==
  [i \in 1..Len(FixtureNames) |-> [name |-> FixtureNames[i], area |-> <<"b", "u", "u">>]]

\* routes.ts:277-530: the predefined roads, no network call
fetchBuuLongRoads ==
  [i \in 1..Len(FixtureNames) |-> [name |-> FixtureNames[i], area |-> AreaBuuLong]]

\* osmData.ts: the Overpass fetcher, the GeoJSON fetcher and the test data.
\* No route calls them.
RoadAnswers ==
  {[kind |-> "notOk"],
   [kind |-> "ok", list |-> <<>>],
   [kind |-> "ok", list |-> <<[name |-> "Way 1"]>>]}

fetchRoadDataFromOSM(answer) ==
  IF answer.kind = "ok"
  THEN [i \in 1..Len(answer.list) |->
          [name |-> answer.list[i].name, area |-> AreaBuuLong]]
  ELSE <<>>

fetchRoadDataFromGeoJSON(answer) ==
  IF answer.kind = "ok"
  THEN [i \in 1..Len(answer.list) |->
          [name |-> answer.list[i].name, area |-> AreaBuuLong]]
  ELSE <<>>

getTestRoadData ==
  LET names == <<"Duong Dong Khoi", "Duong Pham Van Thuan", "Duong Vo Thi Sau",
                 "Duong Buu Long", "Duong Cach Mang Thang Tam",
                 "Duong Noi Bo DH Dong Nai (Main)", "Vong Xoay Dong Khoi">>
  IN  [i \in 1..Len(names) |-> [name |-> names[i], area |-> AreaBuuLong]]

(***************************************************************************)
(* Request parameters and cache keys (routes.ts).                          *)
(***************************************************************************)
\* z.coerce.number(): Number(raw), rejected when NaN.  Number("") is 0,
\* Number("abc") is NaN.
IsNumber(raw) == raw \in {"", "0", "1", "2"}

NumberOf(raw) ==
  CASE raw = "" -> 0
    [] raw = "0" -> 0
    [] raw = "1" -> 1
    [] raw = "2" -> 2
    [] OTHER -> 0

\* parseInt(raw): the number written by the leading digits, NaN when there are none
DigitChars == <<"0", "1", "2", "3", "4", "5", "6", "7", "8", "9">>

IsDigit(c) == \E d \in 1..Len(DigitChars) : DigitChars[d] = c

DigitValue(c) == (CHOOSE d \in 1..Len(DigitChars) : DigitChars[d] = c) - 1

RECURSIVE LeadingDigits(_)
LeadingDigits(s) ==
  IF s # <<>> /\ IsDigit(Head(s)) THEN <<Head(s)>> \o LeadingDigits(Tail(s)) ELSE <<>>

RECURSIVE DecimalValue(_)
DecimalValue(ds) ==
  IF ds = <<>> THEN 0
  ELSE 10 * DecimalValue(SubSeq(ds, 1, Len(ds) - 1)) + DigitValue(ds[Len(ds)])

parseIntIsNaN(raw) == LeadingDigits(trimStart(raw)) = <<>>

parseInt(raw) == DecimalValue(LeadingDigits(trimStart(raw)))

\* routes.ts:25-27  boundsSchema.safeParse(req.query).success
BoundsValid(params) == \A i \in 1..4 : IsNumber(params[i])

\* routes.ts:35  [[south, west], [north, east]]
BoundsOf(params) ==
  <<<<NumberOf(params[1]), NumberOf(params[2])>>,
    <<NumberOf(params[3]), NumberOf(params[4])>>>>

\* req.query.q of a request without a q parameter
Missing == <<"undefined">>

\* routes.ts:146  !query || query.trim() === ''
SearchValid(q) == q # Missing /\ q # <<>> /\ trim(q) # <<>>

\* routes.ts:38  `landmarks:${south},${west},${north},${east}`
landmarksKey(params) ==
  <<"landmarks:", ToString(NumberOf(params[1])), ",", ToString(NumberOf(params[2])),
    ",", ToString(NumberOf(params[3])), ",", ToString(NumberOf(params[4]))>>

\* routes.ts:102
roadsKey == <<"roads:buu-long">>

\* a mutant: the search text alone as the key
searchKeyNoPrefix(q) == toLowerCase(q)

\* routes.ts:150  `search:${query.toLowerCase()}`
searchKey(q) == <<"search:">> \o toLowerCase(q)

\* the characters of a piece of a key
PieceText(piece) ==
  CASE piece = "landmarks:" -> <<"l", "a", "n", "d", "m", "a", "r", "k", "s", ":">>
    [] piece = "search:" -> <<"s", "e", "a", "r", "c", "h", ":">>
    [] piece = "roads:buu-long" ->
         <<"r", "o", "a", "d", "s", ":", "b", "u", "u", "-", "l", "o", "n", "g">>
    [] OTHER -> <<piece>>

\* the string a key is: the Map compares keys as strings
RECURSIVE KeyText(_)
KeyText(key) ==
  IF key = <<>> THEN <<>> ELSE PieceText(Head(key)) \o KeyText(Tail(key))

Valid(route, params) ==
  CASE route = "landmarks" -> BoundsValid(params)
    [] route = "roads" -> TRUE
    [] route = "search" -> SearchValid(params)

KeyOf(route, params) ==
  CASE route = "landmarks" -> landmarksKey(params)
    [] route = "roads" -> roadsKey
    [] route = "search" -> searchKey(params)

BoundsInputs == {<<"0", "0", "1", "1">>, <<"1", "1", "2", "2">>, <<"0", "0", "abc", "1">>}
SearchInputs == {<<"a">>, <<"A">>, <<" ">>}

Inputs ==
  ({"landmarks"} \X BoundsInputs) \cup {<<"roads", <<>>>>} \cup ({"search"} \X SearchInputs)

(***************************************************************************)
(* The routes (routes.ts:16-174).  A handler runs from one await to the    *)
(* next without another handler running in between; while it waits for    *)
(* the network (pc = "fetch" of the Wikipedia fetchers) the event loop is  *)
(* free.  A storage method does its work when it is called, before the     *)
(* caller's await.  pc names the call the handler is awaiting.             *)
(***************************************************************************)
ErrorBody(message) == [message |-> message]

FailureMessage(route) ==
  CASE route = "landmarks" -> "Failed to fetch landmarks"
    [] route = "roads" -> "Failed to fetch Buu Long roads"
    [] route = "search" -> "Failed to search landmarks"

InvalidMessage(route) ==
  CASE route = "landmarks" -> "Invalid bounds parameters"
    [] route = "search" -> "Search query is required"
    [] route = "landmark" -> "Invalid landmark ID"
    [] OTHER -> ""

WritesOf(key) == IF key \in DOMAIN writes THEN writes[key] ELSE <<>>

\* res.status(status).json(body): the handler ends
Response(id, r, status, body) ==
  [op |-> "response", id |-> id, route |-> r.route, params |-> r.params,
   key |-> r.cacheKey, cachedData |-> r.cachedData, status |-> status,
   body |-> body, invoked |-> r.invoked, upstream |-> r.upstream, via |-> r.via,
   wrote |-> r.wrote, raised |-> r.raised, inserted |-> r.inserted,
   found |-> r.found]

\* a mutant: the response is sent and the handler is not ended
ReplyAndGoOn(i, r, status, body) ==
  /\ ret' = Response(i, r, status, body)
  /\ reqs' = reqs
  /\ running' = 0

Reply(i, r, status, body) ==
  /\ ret' = Response(i, r, status, body)
  /\ reqs' = MapDelete(reqs, i)
  /\ running' = 0

\* a mutant: the catch answers like an empty result
CatchReplyEmptyList(i, r) == Reply(i, r, 200, <<>>)

\* catch (error) { res.status(500).json({ message }) }, routes.ts:71-74
CatchReply(i, r) == Reply(i, r, 500, ErrorBody(FailureMessage(r.route)))

\* await storage.setCache({key, data, expiresAt: now + CACHE_DURATION}), routes.ts:64-68
CallSetCacheFromRoute(i, r, ok) ==
  IF ok
  THEN LET insertCache == [key |-> r.cacheKey, data |-> r.items,
                           expiresAt |-> now + CACHE_DURATION]
           entry == [data |-> r.items, expiresAt |-> now + CACHE_DURATION, at |-> now]
       IN  /\ cache' = setCache(cache, cacheCurrentId, insertCache)
           /\ cacheCurrentId' = cacheCurrentId + 1
           /\ lastSet' = MapSet(lastSet, r.cacheKey, entry)
           /\ writes' = MapSet(writes, r.cacheKey,
                Append(WritesOf(r.cacheKey),
                       [data |-> r.items, expiresAt |-> now + CACHE_DURATION, at |-> now,
                        via |-> r.via, inserted |-> r.inserted, started |-> r.started,
                        id |-> cacheCurrentId, route |-> r.route,
                        params |-> r.params]))
           /\ UNCHANGED <<failed, clientVars>>
           /\ reqs' = MapSet(reqs, i, [r EXCEPT !.pc = "setCache",
                                                  !.wrote = cacheCurrentId])
           /\ running' = i
           /\ ret' = NoCall
           /\ UNCHANGED <<storeVars, received, now>>
  ELSE /\ reqs' = MapSet(reqs, i, [r EXCEPT !.pc = "rejected", !.raised = TRUE])
       /\ running' = i
       /\ ret' = NoCall
       /\ UNCHANGED <<storeVars, cacheVars, writes, failed, clientVars, received, now>>

\* a mutant: the insert hands the event loop to whichever handler is ready
CallInsertYielding(i, r, idx, ok) ==
  /\ IF r.route = "landmarks"
     THEN /\ landmarks' = addLandmark(landmarks, landmarksCurrentId, r.items[idx])
          /\ landmarksCurrentId' = landmarksCurrentId + 1
          /\ UNCHANGED <<roads, roadsCurrentId>>
     ELSE /\ roads' = addRoad(roads, roadsCurrentId, r.items[idx])
          /\ roadsCurrentId' = roadsCurrentId + 1
          /\ UNCHANGED <<landmarks, landmarksCurrentId>>
  /\ reqs' = MapSet(reqs, i,
       [r EXCEPT !.pc = "insert", !.idx = idx,
                 !.inserted = Append(@, IF r.route = "landmarks"
                                        THEN landmarksCurrentId
                                        ELSE roadsCurrentId)])
  /\ running' = 0
  /\ ret' = NoCall
  /\ UNCHANGED <<cacheVars, writes, failed, clientVars, received, now>>

\* await storage.addLandmark(...) / addRoad(...) of items[idx], routes.ts:55-60, 119-124
CallInsert(i, r, idx, ok) ==
  IF ok
  THEN /\ IF r.route = "landmarks"
          THEN /\ landmarks' = addLandmark(landmarks, landmarksCurrentId, r.items[idx])
               /\ landmarksCurrentId' = landmarksCurrentId + 1
               /\ UNCHANGED <<roads, roadsCurrentId>>
          ELSE /\ roads' = addRoad(roads, roadsCurrentId, r.items[idx])
               /\ roadsCurrentId' = roadsCurrentId + 1
               /\ UNCHANGED <<landmarks, landmarksCurrentId>>
       /\ reqs' = MapSet(reqs, i,
            [r EXCEPT !.pc = "insert", !.idx = idx,
                      !.inserted = Append(@, IF r.route = "landmarks"
                                             THEN landmarksCurrentId
                                             ELSE roadsCurrentId)])
       /\ running' = i
       /\ ret' = NoCall
       /\ UNCHANGED <<cacheVars, writes, failed, clientVars, received, now>>
  ELSE /\ reqs' = MapSet(reqs, i, [r EXCEPT !.pc = "rejected", !.raised = TRUE])
       /\ running' = i
       /\ ret' = NoCall
       /\ UNCHANGED <<storeVars, cacheVars, writes, failed, clientVars, received, now>>

\* a mutant: the cache write without the inserts
CacheWithoutInserts(i, r, idx, ok) == CallSetCacheFromRoute(i, r, ok)

\* the for loop over the fetched records, then the cache write
StoreNextOrCache(i, r, idx, ok) ==
  IF idx <= Len(r.items)
  THEN CallInsert(i, r, idx, ok)
  ELSE CallSetCacheFromRoute(i, r, ok)

\* The request event: validation, the cache key, and the call of getCache
\* (routes.ts:17-41, 101-105, 143-153).
Receive(route, params, max) ==
  /\ running = 0
  /\ received < max
  /\ received' = received + 1
  /\ LET id == received + 1
         r == [route |-> route, params |-> params, pc |-> "getCache",
               cacheKey |-> IF Valid(route, params) THEN KeyOf(route, params) ELSE <<>>,
               cachedData |-> Undefined, items |-> <<>>, idx |-> 0,
               invoked |-> <<>>, upstream |-> <<>>, via |-> "none",
               wrote |-> 0, raised |-> FALSE, inserted |-> <<>>,
               started |-> cacheCurrentId, found |-> <<>>]
     IN  IF ~Valid(route, params)
         THEN /\ ret' = Response(id, r, 400, ErrorBody(InvalidMessage(route)))
              /\ UNCHANGED <<storeVars, cacheVars, reqs, running, writes, failed, clientVars, now>>
         ELSE /\ reqs' = MapSet(reqs, id,
                   [r EXCEPT !.cachedData = getCache(cache, r.cacheKey, now)])
              /\ cache' = getCacheEffect(cache, r.cacheKey, now)
              /\ running' = id
              /\ ret' = NoCall
              /\ UNCHANGED <<storeVars, cacheCurrentId, lastSet, writes, failed, clientVars, now>>

\* GET /api/landmarks/:id, routes.ts:78-86: parseInt, 400 on NaN, else the call
\* of getLandmarkById
ReceiveLandmarkById(raw, max) ==
  /\ running = 0
  /\ received < max
  /\ received' = received + 1
  /\ LET id == received + 1
         r == [route |-> "landmark", params |-> raw, pc |-> "getLandmarkById",
               cacheKey |-> <<>>, cachedData |-> Undefined, items |-> <<>>, idx |-> 0,
               invoked |-> <<>>, upstream |-> <<>>, via |-> "none",
               wrote |-> 0, raised |-> FALSE, inserted |-> <<>>,
               started |-> cacheCurrentId, found |-> <<>>]
     IN  IF parseIntIsNaN(raw)
         THEN /\ ret' = Response(id, r, 400, ErrorBody(InvalidMessage("landmark")))
              /\ UNCHANGED <<storeVars, cacheVars, reqs, running, writes, failed, clientVars, now>>
         ELSE /\ reqs' = MapSet(reqs, id,
                   [r EXCEPT !.via = "store",
                             !.items = getLandmarkById(landmarks, parseInt(raw))])
              /\ running' = id
              /\ ret' = NoCall
              /\ UNCHANGED <<storeVars, cacheVars, writes, failed, clientVars, now>>

\* routes.ts:88-92: 404 when there is no such landmark, else the landmark
AfterGetLandmarkById(i) ==
  /\ running = i
  /\ i \in DOMAIN reqs
  /\ reqs[i].pc = "getLandmarkById"
  /\ IF reqs[i].items = Undefined
     THEN Reply(i, reqs[i], 404, ErrorBody("Landmark not found"))
     ELSE Reply(i, reqs[i], 200, reqs[i].items)
  /\ UNCHANGED <<storeVars, cacheVars, received, writes, failed, clientVars, now>>

\* if (cachedData) return res.json(cachedData.data); else the store lookup, or
\* for a search the call of searchWikipedia
AfterGetCache(i) ==
  /\ running = i
  /\ i \in DOMAIN reqs
  /\ reqs[i].pc = "getCache"
  /\ LET r == reqs[i]
     IN  IF r.cachedData # Undefined
         THEN /\ Reply(i, [r EXCEPT !.via = "cache"], 200, r.cachedData.data)
              /\ UNCHANGED <<storeVars, cacheVars, received, writes, failed, clientVars, now>>
         ELSE /\ reqs' = MapSet(reqs, i,
                   CASE r.route = "landmarks" ->
                          [r EXCEPT !.pc = "storeLookup",
                                    !.items = getLandmarksByBounds(landmarks, BoundsOf(r.params)),
                                    !.found = getLandmarksByBounds(landmarks, BoundsOf(r.params))]
                     [] r.route = "roads" ->
                          [r EXCEPT !.pc = "storeLookup",
                                    !.items = getRoadsByArea(roads, AreaBuuLong),
                                    !.found = getRoadsByArea(roads, AreaBuuLong)]
                     [] r.route = "search" ->
                          [r EXCEPT !.pc = "fetch", !.via = "fetch",
                                    !.invoked = Append(@, "searchWikipedia")])
              /\ running' = IF r.route = "search" THEN 0 ELSE i
              /\ ret' = NoCall
              /\ UNCHANGED <<storeVars, cacheVars, received, writes, failed, clientVars, now>>

\* a mutant: the handler keeps the event loop while it waits for the network
AfterStoreLookupHoldingLoop(i, ok) ==
  /\ running = i
  /\ i \in DOMAIN reqs
  /\ reqs[i].pc = "storeLookup"
  /\ reqs' = MapSet(reqs, i,
       [reqs[i] EXCEPT !.pc = "fetch", !.via = "fetch",
                       !.invoked = Append(@, "fetchWikipediaLandmarks")])
  /\ running' = i
  /\ ret' = NoCall
  /\ UNCHANGED <<storeVars, cacheVars, received, writes, failed, clientVars, now>>

\* a mutant: the fetch whatever the store lookup found
AfterStoreLookupRefetching(i, ok) ==
  /\ running = i
  /\ i \in DOMAIN reqs
  /\ reqs[i].pc = "storeLookup"
  /\ LET r == reqs[i]
     IN  IF r.route = "landmarks"
         THEN /\ reqs' = MapSet(reqs, i,
                   [r EXCEPT !.pc = "fetch", !.via = "fetch",
                             !.invoked = Append(@, "fetchWikipediaLandmarks")])
              /\ running' = 0
              /\ ret' = NoCall
              /\ UNCHANGED <<storeVars, cacheVars, received, writes, failed, clientVars, now>>
         ELSE /\ reqs' = MapSet(reqs, i,
                   [r EXCEPT !.pc = "fetchRoads", !.via = "fetch",
                             !.items = fetchBuuLongRoads,
                             !.invoked = Append(@, "fetchBuuLongRoads")])
              /\ ret' = NoCall
              /\ UNCHANGED <<storeVars, cacheVars, running, received, writes, failed, clientVars, now>>

\* if (landmarks.length === 0) the fetch; else the cache write
AfterStoreLookup(i, ok) ==
  /\ running = i
  /\ i \in DOMAIN reqs
  /\ reqs[i].pc = "storeLookup"
  /\ LET r == reqs[i]
     IN  IF r.items # <<>>
         THEN CallSetCacheFromRoute(i, [r EXCEPT !.via = "store"], ok)
         ELSE IF r.route = "landmarks"
         THEN /\ reqs' = MapSet(reqs, i,
                   [r EXCEPT !.pc = "fetch", !.via = "fetch",
                             !.invoked = Append(@, "fetchWikipediaLandmarks")])
              /\ running' = 0
              /\ ret' = NoCall
              /\ UNCHANGED <<storeVars, cacheVars, received, writes, failed, clientVars, now>>
         ELSE \E a1 \in RoadAnswers, a2 \in RoadAnswers :
              /\ reqs' = MapSet(reqs, i,
                   [r EXCEPT !.pc = "fetchRoads", !.via = "fetch",
                             !.items = fetchBuuLongRoads,
                             !.upstream = [overpass |-> fetchRoadDataFromOSM(a1),
                                           geojson |-> fetchRoadDataFromGeoJSON(a2)],
                             !.invoked = Append(@, "fetchBuuLongRoads")])
              /\ ret' = NoCall
              /\ UNCHANGED <<storeVars, cacheVars, running, received, writes, failed, clientVars, now>>

\* fetchBuuLongRoads() has returned: the first insert
AfterFetchRoads(i, ok) ==
  /\ running = i
  /\ i \in DOMAIN reqs
  /\ reqs[i].pc = "fetchRoads"
  /\ StoreNextOrCache(i, reqs[i], 1, ok)

\* a mutant: the search results are filed in the store like fetched landmarks
AfterFetchFilingResults(i, answer, ok) ==
  /\ running = 0
  /\ i \in DOMAIN reqs
  /\ reqs[i].pc = "fetch"
  /\ answer \in (IF reqs[i].route = "landmarks" THEN GeoAnswers ELSE SearchAnswers)
  /\ LET r == reqs[i]
         result == IF r.route = "landmarks"
                   THEN fetchWikipediaLandmarks(answer)
                   ELSE searchWikipedia(answer)
         r2 == [r EXCEPT !.items = result.value, !.upstream = [failed |-> answer.kind # "ok"]]
     IN  IF result.threw
         THEN /\ CatchReply(i, [r2 EXCEPT !.raised = TRUE])
              /\ UNCHANGED <<storeVars, cacheVars, received, writes, failed, clientVars, now>>
         ELSE StoreNextOrCache(i, r2, 1, ok)

\* The upstream answers: fetchWikipediaLandmarks / searchWikipedia returns (or
\* throws into the route's catch); then the first insert, or the cache write.
AfterFetch(i, answer, ok) ==
  /\ running = 0
  /\ i \in DOMAIN reqs
  /\ reqs[i].pc = "fetch"
  /\ answer \in (IF reqs[i].route = "landmarks" THEN GeoAnswers ELSE SearchAnswers)
  /\ LET r == reqs[i]
         result == IF r.route = "landmarks"
                   THEN fetchWikipediaLandmarks(answer)
                   ELSE searchWikipedia(answer)
         r2 == [r EXCEPT !.items = result.value, !.upstream = [failed |-> answer.kind # "ok"]]
     IN  IF result.threw
         THEN /\ CatchReply(i, [r2 EXCEPT !.raised = TRUE])
              /\ UNCHANGED <<storeVars, cacheVars, received, writes, failed, clientVars, now>>
         ELSE IF r.route = "landmarks"
              THEN StoreNextOrCache(i, r2, 1, ok)
              ELSE CallSetCacheFromRoute(i, r2, ok)

\* addLandmark / addRoad has returned: the next insert, or the cache write
AfterInsert(i, ok) ==
  /\ running = i
  /\ i \in DOMAIN reqs
  /\ reqs[i].pc = "insert"
  /\ StoreNextOrCache(i, reqs[i], reqs[i].idx + 1, ok)

\* setCache has returned: res.json(landmarks)
AfterSetCache(i) ==
  /\ running = i
  /\ i \in DOMAIN reqs
  /\ reqs[i].pc = "setCache"
  /\ Reply(i, reqs[i], 200, reqs[i].items)
  /\ UNCHANGED <<storeVars, cacheVars, received, writes, failed, clientVars, now>>

\* the awaited storage call rejected: catch (error), routes.ts:71-74
Catch(i) ==
  /\ running = i
  /\ i \in DOMAIN reqs
  /\ reqs[i].pc = "rejected"
  /\ CatchReply(i, reqs[i])
  /\ failed' = IF reqs[i].inserted # <<>> /\ Len(reqs[i].inserted) < Len(reqs[i].items)
               THEN failed \cup {[route |-> reqs[i].route, key |-> reqs[i].cacheKey,
                                  inserted |-> reqs[i].inserted]}
               ELSE failed
  /\ UNCHANGED <<storeVars, cacheVars, received, writes, clientVars, now>>

Ids == 1..MaxReq

GeoOrSearchAnswers == GeoAnswers \cup SearchAnswers

Next ==
  \/ \E in \in Inputs : Receive(in[1], in[2], MaxReq)
  \/ \E i \in Ids : AfterGetCache(i)
  \/ \E i \in Ids : AfterStoreLookup(i, TRUE)
  \/ \E i \in Ids : AfterFetchRoads(i, TRUE)
  \/ \E i \in Ids : \E answer \in GeoOrSearchAnswers : AfterFetch(i, answer, TRUE)
  \/ \E i \in Ids : AfterInsert(i, TRUE)
  \/ \E i \in Ids : AfterSetCache(i)
  \/ Tick

Spec == Init /\ [][Next]_vars

(***************************************************************************)
(* FairSpec: a handler that can run does run, and the clock advances; no   *)
(* request has to arrive and no upstream has to answer.                    *)
(***************************************************************************)
Fairness ==
  /\ WF_vars(Tick)
  /\ \A i \in Ids :
       /\ WF_vars(AfterGetCache(i))
       /\ WF_vars(AfterStoreLookup(i, TRUE))
       /\ WF_vars(AfterFetchRoads(i, TRUE))
       /\ WF_vars(AfterInsert(i, TRUE))
       /\ WF_vars(AfterSetCache(i))

FairSpec == Spec /\ Fairness

RepeatedBounds == <<"0", "0", "1", "1">>

(***************************************************************************)
(* FaultSpec: the routes over a storage whose write methods may reject     *)
(* (IStorage promises; MemStorage itself never rejects).                   *)
(***************************************************************************)
FaultInputs == {<<"landmarks", RepeatedBounds>>, <<"roads", <<>>>>, <<"search", <<"a">>>>}

FaultNext ==
  \/ \E in \in FaultInputs : Receive(in[1], in[2], MaxReq)
  \/ \E i \in Ids : AfterGetCache(i)
  \/ \E i \in Ids, ok \in BOOLEAN : AfterStoreLookup(i, ok)
  \/ \E i \in Ids, ok \in BOOLEAN : AfterFetchRoads(i, ok)
  \/ \E i \in Ids, ok \in BOOLEAN :
       \E answer \in GeoOrSearchAnswers : AfterFetch(i, answer, ok)
  \/ \E i \in Ids, ok \in BOOLEAN : AfterInsert(i, ok)
  \/ \E i \in Ids : AfterSetCache(i)
  \/ \E i \in Ids : Catch(i)
  \/ Tick

FaultSpec == Init /\ [][FaultNext]_vars

(***************************************************************************)
(* RepeatSpec: the same landmarks-by-bounds query received again and       *)
(* again, overlapping or not.                                              *)
(***************************************************************************)
RepeatNext ==
  \/ Receive("landmarks", RepeatedBounds, MaxRepeat)
  \/ \E i \in 1..MaxRepeat : AfterGetCache(i)
  \/ \E i \in 1..MaxRepeat : AfterStoreLookup(i, TRUE)
  \/ \E i \in 1..MaxRepeat : \E answer \in GeoAnswers : AfterFetch(i, answer, TRUE)
  \/ \E i \in 1..MaxRepeat : AfterInsert(i, TRUE)
  \/ \E i \in 1..MaxRepeat : AfterSetCache(i)
  \/ Tick

RepeatSpec == Init /\ [][RepeatNext]_vars

(***************************************************************************)
(* HangSpec: bounds queries and searches whose upstream may never answer.  *)
(* A handler that can run does run; no request has to arrive and no        *)
(* upstream has to answer.                                                 *)
(***************************************************************************)
HangIds == 1..MaxHang

HangInputs == {<<"landmarks", RepeatedBounds>>, <<"search", <<"a">>>>}

UpstreamAnswers(i) == \E answer \in GeoOrSearchAnswers : AfterFetch(i, answer, TRUE)

HangNext ==
  \/ \E in \in HangInputs : Receive(in[1], in[2], MaxHang)
  \/ \E i \in HangIds : AfterGetCache(i)
  \/ \E i \in HangIds : AfterStoreLookup(i, TRUE)
  \/ \E i \in HangIds : UpstreamAnswers(i)
  \/ \E i \in HangIds : AfterInsert(i, TRUE)
  \/ \E i \in HangIds : AfterSetCache(i)
  \/ Tick

HangFairness ==
  /\ WF_vars(Tick)
  /\ \A i \in HangIds :
       /\ WF_vars(AfterGetCache(i))
       /\ WF_vars(AfterStoreLookup(i, TRUE))
       /\ WF_vars(AfterInsert(i, TRUE))
       /\ WF_vars(AfterSetCache(i))

HangSpec == Init /\ [][HangNext]_vars /\ HangFairness

(***************************************************************************)
(* ParamSpec: the landmark and search routes and the landmark-by-id route, *)
(* with well-formed and ill-formed parameters.                            *)
(***************************************************************************)
ParamBounds == {RepeatedBounds, <<"0", "0", "abc", "1">>, <<"0", "0", "", "1">>}

ParamSearches == {<<"a">>, <<"A">>, <<"a", " ">>, <<" ">>, <<>>, Missing}

ParamIds == {<<"1">>, <<"a", "b", "c">>, <<"1", "a">>}

ParamNext ==
  \/ \E params \in ParamBounds : Receive("landmarks", params, MaxReq)
  \/ \E q \in ParamSearches : Receive("search", q, MaxReq)
  \/ \E raw \in ParamIds : ReceiveLandmarkById(raw, MaxReq)
  \/ \E i \in Ids : AfterGetLandmarkById(i)
  \/ \E i \in Ids : AfterGetCache(i)
  \/ \E i \in Ids : AfterStoreLookup(i, TRUE)
  \/ \E i \in Ids : \E answer \in GeoOrSearchAnswers : AfterFetch(i, answer, TRUE)
  \/ \E i \in Ids : AfterInsert(i, TRUE)
  \/ \E i \in Ids : AfterSetCache(i)
  \/ Tick

ParamSpec == Init /\ [][ParamNext]_vars

(***************************************************************************)
(* IdSpec: landmarks, roads and cache entries written by any caller, in    *)
(* any order.                                                              *)
(***************************************************************************)
IdNext ==
  \/ \E l \in LandmarkInputs : CallAddLandmark(l)
  \/ \E r \in RoadInputs : CallAddRoad(r)
  \/ \E k \in Keys, d \in Payloads : CallSetCache(k, d, CACHE_DURATION)

IdSpec == Init /\ [][IdNext]_vars

(***************************************************************************)
(* RoadSpec: road queries one after another, the clock, and expired-entry  *)
(* passes between them.                                                    *)
(***************************************************************************)
RoadNext ==
  \/ Receive("roads", <<>>, MaxRepeat)
  \/ \E i \in 1..MaxRepeat : AfterGetCache(i)
  \/ \E i \in 1..MaxRepeat : AfterStoreLookup(i, TRUE)
  \/ \E i \in 1..MaxRepeat : AfterFetchRoads(i, TRUE)
  \/ \E i \in 1..MaxRepeat : AfterInsert(i, TRUE)
  \/ \E i \in 1..MaxRepeat : AfterSetCache(i)
  \/ running = 0 /\ CallCleanExpiredCache
  \/ Tick

RoadSpec == Init /\ [][RoadNext]_vars

(***************************************************************************)
(* ReplySpec: the landmarks and search routes over a storage whose write   *)
(* methods may reject, with an upstream that answers every call (with data *)
(* or with a failure) and an event loop that runs every handler that can   *)
(* run.                                                                    *)
(***************************************************************************)
ReplyInputs ==
  {<<"landmarks", RepeatedBounds>>, <<"landmarks", <<"0", "0", "abc", "1">>>>,
   <<"search", <<"a">>>>}

HandlerStep(i) ==
  \/ AfterGetCache(i)
  \/ \E ok \in BOOLEAN : AfterStoreLookup(i, ok)
  \/ \E ok \in BOOLEAN : \E answer \in GeoOrSearchAnswers : AfterFetch(i, answer, ok)
  \/ \E ok \in BOOLEAN : AfterInsert(i, ok)
  \/ AfterSetCache(i)
  \/ Catch(i)

ReplyNext ==
  \/ \E in \in ReplyInputs : Receive(in[1], in[2], MaxReplyReq)
  \/ \E i \in 1..MaxReplyReq : HandlerStep(i)

ReplyFairness == \A i \in 1..MaxReplyReq : WF_vars(HandlerStep(i))

ReplySpec == Init /\ [][ReplyNext]_vars /\ ReplyFairness

(***************************************************************************)
(* KeySpec: the three routes with bounds that differ in text or in value   *)
(* and search texts that spell the other routes' keys, within one cache    *)
(* lifetime and with an upstream that answers.                             *)
(***************************************************************************)
KeyBounds == {RepeatedBounds, <<"", "0", "1", "1">>, <<"1", "1", "2", "2">>}

KeySearches ==
  {<<"a">>, <<"A">>,
   <<"r", "o", "a", "d", "s", ":", "b", "u", "u", "-", "l", "o", "n", "g">>,
   <<"l", "a", "n", "d", "m", "a", "r", "k", "s", ":", "0", ",", "0", ",", "1", ",", "1">>}

KeyAnswers ==
  {[kind |-> "ok", list |-> <<GeoP1>>],
   [kind |-> "ok", list |-> <<[pageid |-> 111, title |-> "a"]>>]}

KeyNext ==
  \/ \E params \in KeyBounds : Receive("landmarks", params, MaxKeyReq)
  \/ \E q \in KeySearches : Receive("search", q, MaxKeyReq)
  \/ Receive("roads", <<>>, MaxKeyReq)
  \/ \E i \in 1..MaxKeyReq : AfterGetCache(i)
  \/ \E i \in 1..MaxKeyReq : AfterStoreLookup(i, TRUE)
  \/ \E i \in 1..MaxKeyReq : AfterFetchRoads(i, TRUE)
  \/ \E i \in 1..MaxKeyReq : \E answer \in KeyAnswers : AfterFetch(i, answer, TRUE)
  \/ \E i \in 1..MaxKeyReq : AfterInsert(i, TRUE)
  \/ \E i \in 1..MaxKeyReq : AfterSetCache(i)

KeySpec == Init /\ [][KeyNext]_vars

(***************************************************************************)
(* ByIdSpec: landmarks added by any caller and looked up by id, by any     *)
(* caller and by the by-id route.  A handler runs from its lookup to its   *)
(* reply without another caller's step in between (running).               *)
(***************************************************************************)
ByIdTexts == {<<"1">>, <<"2">>, <<"9">>, <<"a", "b", "c">>}

ByIdNext ==
  \/ \E l \in LandmarkInputs : running = 0 /\ CallAddLandmark(l)
  \/ \E id \in 0..(MaxInserts + 1) : running = 0 /\ CallGetLandmarkById(id)
  \/ \E raw \in ByIdTexts : ReceiveLandmarkById(raw, MaxReq)
  \/ \E i \in Ids : AfterGetLandmarkById(i)

ByIdSpec == Init /\ [][ByIdNext]_vars

(***************************************************************************)
(* ClientSpec: the info panel of the client (MapContext.tsx, InfoPanel.tsx).*)
(* showInfoMessage sets the panel's state and starts a timer; a timer's    *)
(* callback runs once its delay has passed; the user may close the panel.  *)
(* Times are in ms.  A due callback runs before the clock moves on.        *)
(***************************************************************************)
DefaultDuration == 5000

Durations == {1000, DefaultDuration}

ClientTimes == {0, 1000, 2000, 5000, 6000, 7000}

InfoTexts == {"Getting your current location...", "Map centered on your current location"}

InfoTypes == {"info", "success", "error"}

\* MapContext.tsx:57-70
showInfoMessage(message, type, duration) ==
  /\ Len(shown) < MaxShown
  /\ clientNow + duration \in ClientTimes
  /\ infoMessage' = message
  /\ infoType' = type
  /\ isInfoVisible' = TRUE
  /\ timeouts' = timeouts \cup {[id |-> Len(shown) + 1, due |-> clientNow + duration]}
  /\ shown' = Append(shown, [message |-> message, at |-> clientNow,
                             due |-> clientNow + duration, closed |-> FALSE])
  /\ UNCHANGED <<storeVars, cacheVars, handlerVars, now, ret, clientNow>>

\* MapContext.tsx:67-69: the timer's callback, setIsInfoVisible(false)
TimeoutFires(t) ==
  /\ t \in timeouts
  /\ t.due <= clientNow
  /\ isInfoVisible' = FALSE
  /\ timeouts' = timeouts \ {t}
  /\ UNCHANGED <<storeVars, cacheVars, handlerVars, now, ret, infoMessage, infoType,
                 clientNow, shown>>

\* InfoPanel.tsx:9-11
closeInfoPanel ==
  /\ isInfoVisible
  /\ isInfoVisible' = FALSE
  /\ shown' = [shown EXCEPT ![Len(shown)].closed = TRUE]
  /\ UNCHANGED <<storeVars, cacheVars, handlerVars, now, ret, infoMessage, infoType,
                 timeouts, clientNow>>

ClientTick ==
  /\ \A t \in timeouts : t.due > clientNow
  /\ \E later \in ClientTimes :
       /\ later > clientNow
       /\ \A t \in timeouts : t.due >= later
       /\ clientNow' = later
  /\ UNCHANGED <<storeVars, cacheVars, handlerVars, now, ret, isInfoVisible, infoMessage,
                 infoType, timeouts, shown>>

ClientNext ==
  \/ \E message \in InfoTexts, type \in InfoTypes, duration \in Durations :
       showInfoMessage(message, type, duration)
  \/ \E t \in timeouts : TimeoutFires(t)
  \/ closeInfoPanel
  \/ ClientTick

ClientSpec == Init /\ [][ClientNext]_vars

(***************************************************************************)
(* Properties.                                                             *)
(***************************************************************************)
IsResponse == ret.op = "response"

\* C1 (CacheSpec): after setCache(k, d, t) with t > now and no later set or
\* invalidate of k, getCache(k) returns the entry with data d while now < t and
\* not-found once now >= t, sweep or no sweep; no read returns an entry whose
\* expiresAt <= now.
C1_CacheCorrectness ==
  ret.op = "getCache" =>
    /\ ret.val # Undefined => ret.val.expiresAt > now
    /\ (ret.arg \in DOMAIN lastSet /\ lastSet[ret.arg].expiresAt > lastSet[ret.arg].at) =>
         IF now < lastSet[ret.arg].expiresAt
         THEN ret.val # Undefined /\ ret.val.data = lastSet[ret.arg].data
         ELSE ret.val = Undefined

\* what a landmarks handler that found a cache entry does with it
HitIsServed ==
  /\ \A i \in DOMAIN reqs :
       reqs[i].cachedData # Undefined => reqs[i].pc = "getCache" /\ reqs[i].invoked = <<>>
  /\ (IsResponse /\ ret.route = "landmarks" /\ ret.cachedData # Undefined) =>
       /\ ret.status = 200
       /\ ret.body = ret.cachedData.data
       /\ ret.invoked = <<>>

C3_BoundsFilterExact ==
  ret.op = "getLandmarksByBounds" =>
    LET sw == ret.arg[1]
        ne == ret.arg[2]
        match == {id \in DOMAIN landmarks :
                    /\ landmarks[id].coordinates[1] \in sw[1]..ne[1]
                    /\ landmarks[id].coordinates[2] \in sw[2]..ne[2]}
    IN  /\ DOMAIN ret.val = 1..Len(ret.val)
        /\ {ret.val[n].id : n \in 1..Len(ret.val)} = match
        /\ Len(ret.val) = Cardinality(match)
        /\ \A n \in 1..Len(ret.val) : ret.val[n] = landmarks[ret.val[n].id]

\* C3 witness: a lookup that returned a landmark on the box's corner and left
\* another stored landmark out
C3_Witness ==
  /\ ret.op = "getLandmarksByBounds"
  /\ Len(ret.val) >= 1
  /\ Len(ret.val) < Cardinality(DOMAIN landmarks)
  /\ \E n \in 1..Len(ret.val) : ret.val[n].coordinates = ret.arg[2]

RoadFetched == IsResponse /\ ret.route = "roads" /\ ret.via = "fetch"

IsFixture(f) == f \in {"fetchBuuLongRoads", "getTestRoadData"}

\* C4 (Spec): a road query that misses cache and store calls the Overpass
\* provider first, the GeoJSON provider only if that gave nothing, the fixture
\* only if both gave nothing.
C4_RoadProviderOrder ==
  RoadFetched =>
    /\ ret.invoked # <<>> /\ ret.invoked[1] = "fetchRoadDataFromOSM"
    /\ \A n \in 1..Len(ret.invoked) :
         /\ ret.invoked[n] = "fetchRoadDataFromGeoJSON" =>
              n = 2 /\ ret.upstream.overpass = <<>>
         /\ IsFixture(ret.invoked[n]) =>
              n = 3 /\ ret.upstream.overpass = <<>> /\ ret.upstream.geojson = <<>>
    /\ ret.upstream.overpass # <<>> => ret.invoked = <<"fetchRoadDataFromOSM">>

\* C5 (Spec): when the Overpass and the GeoJSON provider both fail or give
\* nothing, the road fetch gives exactly the fixed fixture records and the query
\* is answered 200.
C5_FallbackExhaustion ==
  (RoadFetched /\ ret.upstream.overpass = <<>> /\ ret.upstream.geojson = <<>>) =>
    /\ ret.status = 200
    /\ Len(ret.body) = Len(FixtureNames)
    /\ \A n \in 1..Len(ret.body) :
         ret.body[n] = [name |-> FixtureNames[n], area |-> AreaBuuLong]

\* C5 witness: a road query answered from the fixture while both providers are down
C5_Witness ==
  /\ RoadFetched /\ ret.status = 200
  /\ ret.upstream.overpass = <<>> /\ ret.upstream.geojson = <<>>
  /\ "fetchBuuLongRoads" \in {ret.invoked[n] : n \in 1..Len(ret.invoked)}

\* C6 (Spec): a road query answered 200 returns a non-empty list, on every
\* path, and the cache entry under the road key is never an empty list.
C6_RoadsNeverEmpty ==
  /\ (IsResponse /\ ret.route = "roads" /\ ret.status = 200) => ret.body # <<>>
  /\ roadsKey \in DOMAIN cache => cache[roadsKey].data # <<>>

\* C6 witness: a road query answered from the store after the cache entry expired
C6_Witness ==
  /\ IsResponse /\ ret.route = "roads" /\ ret.status = 200 /\ ret.via = "store"
  /\ roadsKey \in DOMAIN cache

UpstreamFailed ==
  /\ IsResponse /\ ret.route \in {"landmarks", "search"}
  /\ ret.via = "fetch" /\ ret.upstream.failed

C8_NoCacheWriteOnFailedFetch ==
  UpstreamFailed => ret.wrote = 0 /\ ret.key \notin DOMAIN cache

\* C9 (FaultSpec): a query one of whose storage calls rejected is answered 500
\* with the failure message, not with a list, and has written no cache entry.
C9_ServiceFailure ==
  (IsResponse /\ ret.raised) =>
    /\ ret.status = 500
    /\ ret.body = ErrorBody(FailureMessage(ret.route))
    /\ ret.wrote = 0
    /\ \A k \in DOMAIN cache : cache[k].id # ret.wrote

\* C9 witness: a bounds query answered 500 after some of its inserts were done
C9_Witness ==
  /\ IsResponse /\ ret.raised /\ ret.status = 500
  /\ ret.route = "landmarks" /\ landmarksCurrentId > 1

RouteKeys == {KeyOf(in[1], in[2]) : in \in {x \in Inputs : Valid(x[1], x[2])}}

\* C10 (FairSpec): every cache entry whose expiresAt has passed is eventually
\* removed, read again or not.
C10_ExpiredEntriesEventuallyRemoved ==
  \A k \in RouteKeys :
    (k \in DOMAIN cache /\ cache[k].expiresAt < now)
      ~> (k \notin DOMAIN cache \/ cache[k].expiresAt >= now)

\* C11 (CacheSpec): right after cleanExpiredCache() at time now the cache holds
\* no entry with expiresAt <= now, and every entry with expiresAt > now that
\* was there before the call is still there, unchanged.
C11_SweepRemovesExpiredOnly ==
  ret.op = "cleanExpiredCache" =>
    /\ \A k \in DOMAIN cache : cache[k].expiresAt > now
    /\ \A k \in DOMAIN ret.before :
         ret.before[k].expiresAt > now =>
           k \in DOMAIN cache /\ cache[k] = ret.before[k]

\* C12 (CacheSpec): a second cleanExpiredCache() right after a first one, at
\* the same time value, leaves the cache exactly as the first one left it.
C12_SweepIdempotent ==
  (ret.op = "cleanExpiredCache" /\ ret.again) => cache = ret.before

\* C12 witness: a second pass in succession, over a cache in which an entry
\* survived the first pass and from which an expired entry is gone
C12_Witness ==
  /\ ret.op = "cleanExpiredCache" /\ ret.again
  /\ cache # <<>>
  /\ \E k \in DOMAIN lastSet : k \notin DOMAIN cache /\ lastSet[k].expiresAt < now

\* what a step that files a record in an id-keyed map does: one new id, not
\* below the counter, the counter past it afterwards, the older records kept
FiledFresh(m, mNew, counter, counterNew) ==
  mNew # m =>
    \E id \in DOMAIN mNew \ DOMAIN m :
      /\ DOMAIN mNew = DOMAIN m \cup {id}
      /\ \A j \in DOMAIN m : j < id /\ mNew[j] = m[j]
      /\ mNew[id].id = id
      /\ id >= counter /\ counterNew > id
      /\ counter = 1 => id = 1

IdsInState ==
  /\ DOMAIN landmarks = 1..(landmarksCurrentId - 1)
  /\ DOMAIN roads = 1..(roadsCurrentId - 1)
  /\ \A id \in DOMAIN landmarks : landmarks[id].id = id
  /\ \A id \in DOMAIN roads : roads[id].id = id
  /\ \A k \in DOMAIN cache : cache[k].id \in 1..(cacheCurrentId - 1)
  /\ \A k1, k2 \in DOMAIN cache : k1 # k2 => cache[k1].id # cache[k2].id

IdsInStep ==
  /\ landmarksCurrentId' >= landmarksCurrentId
  /\ roadsCurrentId' >= roadsCurrentId
  /\ cacheCurrentId' >= cacheCurrentId
  /\ FiledFresh(landmarks, landmarks', landmarksCurrentId, landmarksCurrentId')
  /\ FiledFresh(roads, roads', roadsCurrentId, roadsCurrentId')
  /\ \A k \in DOMAIN cache' :
       (k \notin DOMAIN cache \/ cache'[k] # cache[k]) =>
         /\ cache'[k].id >= cacheCurrentId /\ cacheCurrentId' > cache'[k].id
         /\ cacheCurrentId = 1 => cache'[k].id = 1

\* C13 (Spec): per kind (landmark, road, cache entry) the first id is 1, every
\* id handed out is greater than all ids handed out before, also after a cache
\* entry was removed or replaced, and each landmark and road is filed under
\* its own id.
C13_IdsUniqueAndIncreasing == []IdsInState /\ [][IdsInStep]_vars

\* C13 witness: a key's cache entry written a second time, with a later id,
\* in a store that holds two landmarks
C13_Witness ==
  /\ \E k \in DOMAIN cache : cache[k].id >= 2 /\ Len(WritesOf(k)) >= 2
  /\ Cardinality(DOMAIN landmarks) >= 2

CasePairs == {<<"a", "A">>, <<"b", "B">>, <<"l", "L">>, <<"o", "O">>,
              <<"n", "N">>, <<"g", "G">>, <<"u", "U">>}

\* two strings that differ at most in the case of their letters
SameUpToCase(a, b) ==
  /\ Len(a) = Len(b)
  /\ \A i \in 1..Len(a) :
       a[i] = b[i] \/ <<a[i], b[i]>> \in CasePairs \/ <<b[i], a[i]>> \in CasePairs

\* C14 (StoreSpec): getRoadsByArea(a) returns exactly the stored roads whose
\* area equals a up to letter case, so two areas that differ only in case get
\* the same roads; and the road query has one cache key whatever the case.
C14_AreaMatchIgnoresCase ==
  /\ ret.op = "getRoadsByArea" =>
       LET match == {id \in DOMAIN roads : SameUpToCase(roads[id].area, ret.arg)}
       IN  /\ {ret.val[n].id : n \in 1..Len(ret.val)} = match
           /\ Len(ret.val) = Cardinality(match)
           /\ \A n \in 1..Len(ret.val) : ret.val[n] = roads[ret.val[n].id]
  /\ \A a1, a2 \in Areas :
       SameUpToCase(a1, a2) =>
         /\ getRoadsByArea(roads, a1) = getRoadsByArea(roads, a2)
         /\ KeyOf("roads", a1) = KeyOf("roads", a2)

\* C14 witness: a lookup of "Buu Long" that returned a road stored as
\* "buu long" and left out a road of another area
C14_Witness ==
  /\ ret.op = "getRoadsByArea"
  /\ ret.arg # AreaBuuLong
  /\ \E n \in 1..Len(ret.val) : ret.val[n].area = AreaBuuLong
  /\ Len(ret.val) < Cardinality(DOMAIN roads)

\* the records a request filed: one per fetched record, in fetch order, under
\* consecutive ids
FiledInOrder(r) ==
  LET store == IF r.route = "landmarks" THEN landmarks ELSE roads
  IN  /\ Len(r.inserted) = Len(r.items)
      /\ \A j \in 1..Len(r.inserted) :
           /\ r.inserted[j] \in DOMAIN store
           /\ store[r.inserted[j]] = WithId(r.items[j], r.inserted[j])
           /\ r.inserted[j] = r.inserted[1] + j - 1

\* C15 (Spec): a bounds or road query that missed cache and store and whose
\* fetch returned n records has filed exactly those n records, in fetch order
\* under consecutive ids (1..n in an empty store), before it writes the cache
\* entry, and it answers with the fetched list.
C15_FetchedRecordsStoredThenCached ==
  /\ \A i \in DOMAIN reqs :
       LET r == reqs[i]
       IN  (r.route \in {"landmarks", "roads"} /\ r.via = "fetch") =>
             /\ r.pc = "insert" =>
                  /\ r.wrote = 0
                  /\ Len(r.inserted) = r.idx
                  /\ r.inserted[1] = 1 => r.inserted = [j \in 1..r.idx |-> j]
             /\ r.wrote # 0 => FiledInOrder(r)
  /\ (IsResponse /\ ret.route \in {"landmarks", "roads"} /\ ret.via = "fetch"
        /\ ret.status = 200) =>
       /\ ret.wrote # 0
       /\ \E n \in 1..Len(WritesOf(ret.key)) : WritesOf(ret.key)[n].data = ret.body
       /\ Len(ret.inserted) = Len(ret.body)
       /\ \A j \in 1..Len(ret.inserted) :
            LET store == IF ret.route = "landmarks" THEN landmarks ELSE roads
            IN  store[ret.inserted[j]] = WithId(ret.body[j], ret.inserted[j])

\* C15 witness: a bounds query answered with its two fetched landmarks, filed
\* under ids 1 and 2
C15_Witness ==
  /\ IsResponse /\ ret.route = "landmarks" /\ ret.via = "fetch" /\ ret.status = 200
  /\ Len(ret.body) = 2
  /\ ret.inserted = <<1, 2>>
  /\ ret.wrote # 0

\* C16 (Spec): every cache entry written by a route has expiresAt = the second
\* of the write + 3600, so no entry outlives its write by more than 3600 s and
\* no route writes an entry that is already expired.
C16_ExpiryIsWritePlusTtl ==
  /\ \A k \in DOMAIN writes :
       \A n \in 1..Len(writes[k]) : writes[k][n].expiresAt = writes[k][n].at + 3600
  /\ \A k \in DOMAIN cache :
       /\ k \in DOMAIN lastSet
       /\ lastSet[k].at <= now
       /\ cache[k].expiresAt = lastSet[k].at + 3600
  /\ \A i \in DOMAIN reqs :
       reqs[i].pc = "setCache" =>
         /\ reqs[i].cacheKey \in DOMAIN cache
         /\ cache[reqs[i].cacheKey].expiresAt = now + 3600
         /\ cache[reqs[i].cacheKey].expiresAt > now

\* C16 witness: a search has just written its entry at second 1
C16_Witness ==
  \E i \in DOMAIN reqs :
    /\ reqs[i].pc = "setCache" /\ reqs[i].route = "search"
    /\ now = 1
    /\ cache[reqs[i].cacheKey].expiresAt = 3601

\* a search text with its letters lowercased and the blanks at its ends removed
Normalised(q) == toLowerCase(trim(q))

\* C17 (ParamSpec): the cache key of a search is built from the lowercased and
\* trimmed text, so two texts that differ only in case or in blanks at the
\* ends have the same key.
C17_SearchKeyNormalised ==
  \A i \in DOMAIN reqs :
    reqs[i].route = "search" =>
      /\ reqs[i].cacheKey = <<"search:">> \o Normalised(reqs[i].params)
      /\ \A q \in ParamSearches :
           (SearchValid(q) /\ Normalised(q) = Normalised(reqs[i].params)) =>
             KeyOf("search", q) = reqs[i].cacheKey

\* parameters that are not what the route asks for: a bound that is not a
\* decimal numeral, a search text that is absent or blank, an id with a
\* character that is not a digit
Malformed(route, params) ==
  CASE route = "landmarks" -> \E j \in 1..4 : params[j] \notin {"0", "1", "2"}
    [] route = "search" ->
         params = Missing \/ \A n \in 1..Len(params) : params[n] = " "
    [] route = "landmark" ->
         params = <<>> \/ \E n \in 1..Len(params) : ~IsDigit(params[n])
    [] OTHER -> FALSE

\* C20 (ParamSpec): a request with malformed parameters is answered 400 and
\* goes no further: no handler works on it, no cache or store access, no fetch.
C20_MalformedStopsAtValidation ==
  /\ \A i \in DOMAIN reqs : ~Malformed(reqs[i].route, reqs[i].params)
  /\ (IsResponse /\ Malformed(ret.route, ret.params)) =>
       /\ ret.status = 400
       /\ ret.via = "none" /\ ret.invoked = <<>>
       /\ ret.wrote = 0 /\ ret.inserted = <<>> /\ ret.cachedData = Undefined

\* the n-th and the m-th cache write under key k come from two queries that had
\* both started before either wrote: the later writer started when fewer than
\* n entries had been written
Overlapped(k, n, m) ==
  /\ n \in 1..Len(writes[k]) /\ m \in 1..Len(writes[k])
  /\ n < m
  /\ writes[k][m].started <= writes[k][n].id

RecordsFiled(w) ==
  /\ Len(w.inserted) = Len(w.data)
  /\ \A j \in 1..Len(w.inserted) :
       /\ w.inserted[j] \in DOMAIN landmarks
       /\ landmarks[w.inserted[j]] = WithId(w.data[j], w.inserted[j])

CacheHoldsLastWrite ==
  \A k \in DOMAIN cache :
    /\ k \in DOMAIN writes
    /\ cache[k].data = writes[k][Len(writes[k])].data
    /\ cache[k].id = writes[k][Len(writes[k])].id

C19_HungQueryBlocksOnlyItself ==
  /\ [](\A i \in DOMAIN reqs : reqs[i].pc = "fetch" => running # i)
  /\ \A j \in HangIds :
       WF_vars(UpstreamAnswers(j)) => ((j \in DOMAIN reqs) ~> (j \notin DOMAIN reqs))

\* C19 witness: a query for the same key was answered, after filing its record
\* and writing the cache, while an earlier one is still waiting for its upstream
C19_Witness ==
  /\ IsResponse /\ ret.status = 200 /\ ret.wrote # 0 /\ ret.inserted # <<>>
  /\ \E i \in DOMAIN reqs :
       /\ i < ret.id
       /\ reqs[i].pc = "fetch"
       /\ reqs[i].cacheKey = ret.key

Kept(m, mNew) == \A id \in DOMAIN m : id \in DOMAIN mNew /\ mNew[id] = m[id]

\* C21 (Spec): a stored landmark or road stays in the store, with the same
\* field values, over every step: queries, cache writes and cache expiry
\* delete and change nothing there, the store only grows.
C21_StoreOnlyGrows == [][Kept(landmarks, landmarks') /\ Kept(roads, roads')]_vars

\* C21 witness: the stored roads are still there after the road cache entry
\* was written and, expired, removed by a read
C21_Witness ==
  /\ Cardinality(DOMAIN roads) = Len(FixtureNames)
  /\ roadsKey \in DOMAIN writes /\ roadsKey \notin DOMAIN cache

\* the entries under the keys other than k are the same in c and cNew
OthersKept(c, cNew, k) ==
  /\ DOMAIN cNew \ {k} = DOMAIN c \ {k}
  /\ \A x \in DOMAIN c \ {k} : cNew[x] = c[x]

\* C22 (CacheSpec): invalidateCache(k) returns without a value; afterwards k
\* has no entry and getCache(k) finds nothing until k is set again; the
\* entries under other keys are unchanged; with k absent, and on a second
\* call in succession, the cache is unchanged.
C22_InvalidateRemovesOnlyItsKey ==
  /\ ret.op = "invalidateCache" =>
       /\ ret.val = Undefined
       /\ ret.arg \notin DOMAIN cache
       /\ OthersKept(ret.before, cache, ret.arg)
       /\ ret.arg \notin DOMAIN ret.before => cache = ret.before
       /\ ret.again => cache = ret.before
  /\ (ret.op = "getCache" /\ ret.arg \notin DOMAIN lastSet) => ret.val = Undefined

\* C22 witness: an entry was invalidated and the entry under the other key is
\* still there
C22_Witness ==
  /\ ret.op = "invalidateCache"
  /\ ret.arg \in DOMAIN ret.before
  /\ cache # <<>>

\* C23 (CacheSpec): one entry per key, filed under its key; setCache on a
\* present key replaces the entry and leaves the other keys alone; a getCache
\* before expiry returns the data and expiresAt of the latest set of the key.
C23_SetReplaces ==
  /\ \A k \in DOMAIN cache : cache[k].key = k
  /\ ret.op = "setCache" =>
       /\ ret.arg \in DOMAIN cache /\ cache[ret.arg] = ret.val
       /\ ret.val.data = lastSet[ret.arg].data
       /\ ret.val.expiresAt = lastSet[ret.arg].expiresAt
       /\ OthersKept(ret.before, cache, ret.arg)
  /\ (ret.op = "getCache" /\ ret.arg \in DOMAIN lastSet) =>
       /\ now < lastSet[ret.arg].expiresAt => ret.val # Undefined
       /\ ret.val # Undefined =>
            /\ ret.val.data = lastSet[ret.arg].data
            /\ ret.val.expiresAt = lastSet[ret.arg].expiresAt

\* C23 witness: a set has replaced an entry with other data while the other
\* key holds an entry
C23_Witness ==
  /\ ret.op = "setCache"
  /\ ret.arg \in DOMAIN ret.before
  /\ ret.before[ret.arg].data # cache[ret.arg].data
  /\ Cardinality(DOMAIN cache) = 2

\* C24 (CacheSpec): getCache(k) on an entry that has expired (expiresAt <= now)
\* removes it and returns not-found; on an unexpired entry or an absent key it
\* leaves the cache as it is; the entries under other keys are never altered.
C24_GetEvictsOnlyExpired ==
  ret.op = "getCache" =>
    /\ OthersKept(ret.before, cache, ret.arg)
    /\ IF ret.arg \in DOMAIN ret.before /\ ret.before[ret.arg].expiresAt <= now
       THEN ret.arg \notin DOMAIN cache /\ ret.val = Undefined
       ELSE cache = ret.before

AssignedLandmarkIds == 1..(landmarksCurrentId - 1)

\* C25 (ByIdSpec): addLandmark(f) returns f with its new id and stores that
\* record; getLandmarkById of an assigned id returns the record stored under
\* it, which no later step changes; getLandmarkById of an id never assigned
\* returns not-found, and the by-id route then answers 404.
C25_AddThenGetById ==
  /\ [](ret.op = "addLandmark" =>
          /\ DOMAIN ret.val = DOMAIN ret.arg \cup {"id"}
          /\ \A f \in DOMAIN ret.arg : ret.val[f] = ret.arg[f]
          /\ ret.val.id = landmarksCurrentId - 1
          /\ landmarks[ret.val.id] = ret.val)
  /\ [](ret.op = "getLandmarkById" =>
          IF ret.arg \in AssignedLandmarkIds
          THEN ret.val = landmarks[ret.arg] /\ ret.val.id = ret.arg
          ELSE ret.val = Undefined)
  /\ []((IsResponse /\ ret.route = "landmark" /\ ret.status # 400) =>
          IF parseInt(ret.params) \in AssignedLandmarkIds
          THEN ret.status = 200 /\ ret.body = landmarks[parseInt(ret.params)]
          ELSE ret.status = 404 /\ ret.body = ErrorBody("Landmark not found"))
  /\ [][Kept(landmarks, landmarks')]_vars

\* C25 witness: the route answered with the first landmark after a second one
\* was added
C25_Witness ==
  /\ IsResponse /\ ret.route = "landmark" /\ ret.status = 200
  /\ ret.body.id = 1
  /\ Cardinality(DOMAIN landmarks) >= 2

StoredMatches(route, params) ==
  IF route = "landmarks"
  THEN getLandmarksByBounds(landmarks, BoundsOf(params))
  ELSE getRoadsByArea(roads, AreaBuuLong)

\* C26 (Spec): a bounds or area query that missed the cache and whose store
\* lookup found at least one matching record invokes no upstream fetch and
\* inserts nothing; it answers 200 with exactly the matching stored records,
\* and the cache holds that same list under the query's key.
C26_StoreHitServedAndCached ==
  (IsResponse /\ ret.route \in {"landmarks", "roads"} /\ ret.found # <<>>) =>
    /\ ret.cachedData = Undefined
    /\ ret.invoked = <<>>
    /\ ret.inserted = <<>>
    /\ ret.status = 200
    /\ ret.body = ret.found
    /\ ret.body = StoredMatches(ret.route, ret.params)
    /\ ret.key \in DOMAIN cache
    /\ cache[ret.key].data = ret.body
    /\ cache[ret.key].id = ret.wrote

\* C26 witness: a bounds query answered from the store with one of two stored
\* landmarks, under a key no earlier query had written
C26_Witness ==
  /\ IsResponse /\ ret.route = "landmarks" /\ ret.found # <<>>
  /\ Len(ret.body) = 1
  /\ Cardinality(DOMAIN landmarks) = 2
  /\ Len(WritesOf(ret.key)) = 1

IdsOf(list) == {list[n].id : n \in 1..Len(list)}

Filing(r) == r.pc \in {"insert", "setCache"}

\* C27 (Spec): a handler that is filing its fetched records or writing the
\* cache is the one running; while a handler runs, no query is received and no
\* other handler takes a step or is answered; and no handler's store lookup
\* holds a record of a batch that another handler is still filing.
C27_FilingIsNotInterleaved ==
  /\ [](\A i \in DOMAIN reqs : Filing(reqs[i]) => running = i)
  /\ [](\A i \in DOMAIN reqs : \A j \in DOMAIN reqs \ {i} :
          IdsOf(reqs[j].found) \cap {reqs[i].inserted[n] : n \in 1..Len(reqs[i].inserted)} = {})
  /\ [][running # 0 =>
          /\ received' = received
          /\ \A j \in DOMAIN reqs \ {running} : j \in DOMAIN reqs' /\ reqs'[j] = reqs[j]
          /\ running' \in {0, running}
          /\ ret'.op = "response" => ret'.id = running]_vars

\* C27 witness: a handler has filed one of its two fetched landmarks while
\* another query waits for its own fetch
C27_Witness ==
  \E i \in DOMAIN reqs : \E j \in DOMAIN reqs \ {i} :
    /\ reqs[i].pc = "insert"
    /\ Len(reqs[i].inserted) = 1
    /\ Len(reqs[i].items) = 2
    /\ reqs[j].pc = "fetch"

\* C28 (FaultSpec): after a handler failed having inserted some but not all of
\* its fetched records, no query for the same key is answered 200 with just
\* those records, and none writes just those records to the cache.
C28_PartialBatchNeverServed ==
  \A f \in failed :
    LET part == {f.inserted[n] : n \in 1..Len(f.inserted)}
    IN  /\ (IsResponse /\ ret.key = f.key /\ ret.status = 200 /\ ret.found # <<>>) =>
             IdsOf(ret.found) # part
        /\ \A n \in 1..Len(WritesOf(f.key)) :
             WritesOf(f.key)[n].via = "store" =>
               IdsOf(WritesOf(f.key)[n].data) # part

\* the queries the state knows: those in flight, those that wrote the cache
\* and the one just answered
KnownQueries ==
  {[route |-> reqs[i].route, params |-> reqs[i].params, key |-> reqs[i].cacheKey] :
     i \in DOMAIN reqs}
  \cup UNION {{[route |-> writes[k][n].route, params |-> writes[k][n].params, key |-> k] :
                 n \in 1..Len(writes[k])} : k \in DOMAIN writes}
  \cup (IF IsResponse /\ ret.status # 400
        THEN {[route |-> ret.route, params |-> ret.params, key |-> ret.key]}
        ELSE {})

SameQuery(a, b) ==
  /\ a.route = b.route
  /\ a.route = "landmarks" => BoundsOf(a.params) = BoundsOf(b.params)
  /\ a.route = "search" => toLowerCase(a.params) = toLowerCase(b.params)

\* C29 (KeySpec): two queries have the same key string exactly when they are of
\* the same kind and, for bounds, have the same four values (for searches, the
\* same text up to letter case); and a query served from the cache is served an
\* entry that such a query wrote.
C29_KeysCollisionFree ==
  /\ \A a \in KnownQueries : \A b \in KnownQueries :
       (KeyText(a.key) = KeyText(b.key)) <=> SameQuery(a, b)
  /\ (IsResponse /\ ret.via = "cache") =>
       \E n \in 1..Len(WritesOf(ret.key)) :
         /\ WritesOf(ret.key)[n].id = ret.cachedData.id
         /\ WritesOf(ret.key)[n].data = ret.body
         /\ SameQuery(WritesOf(ret.key)[n], ret)

\* C29 witness: a bounds query served from the cache what a query with other
\* parameter text and the same four values wrote
C29_Witness ==
  /\ IsResponse /\ ret.via = "cache" /\ ret.route = "landmarks"
  /\ \E n \in 1..Len(WritesOf(ret.key)) :
       /\ WritesOf(ret.key)[n].id = ret.cachedData.id
       /\ WritesOf(ret.key)[n].params # ret.params

\* a step of a search: its request is received, or its handler moves or ends
SearchStep(i) ==
  \/ i \in DOMAIN reqs /\ reqs[i].route = "search"
       /\ (i \notin DOMAIN reqs' \/ reqs'[i] # reqs[i])
  \/ i \notin DOMAIN reqs /\ i \in DOMAIN reqs' /\ reqs'[i].route = "search"
  \/ received' = i /\ received = i - 1 /\ ret'.op = "response" /\ ret'.route = "search"

SearchStepKey(i) ==
  IF i \in DOMAIN reqs THEN reqs[i].cacheKey
  ELSE IF i \in DOMAIN reqs' THEN reqs'[i].cacheKey
  ELSE <<>>

\* C30 (Spec): a search never looks up or inserts into the landmark or road
\* store and after a cache miss calls only the upstream search; every step of
\* a search leaves the stored landmarks and roads and both id counters as they
\* were, and changes no cache entry other than the one under its own key.
C30_SearchLeavesStoreAlone ==
  /\ [](\A i \in DOMAIN reqs :
          reqs[i].route = "search" =>
            /\ reqs[i].pc \in {"getCache", "fetch", "setCache"}
            /\ reqs[i].found = <<>> /\ reqs[i].inserted = <<>>)
  /\ []((IsResponse /\ ret.route = "search" /\ ret.status # 400) =>
          /\ ret.found = <<>> /\ ret.inserted = <<>>
          /\ ret.invoked = IF ret.cachedData = Undefined
                           THEN <<"searchWikipedia">> ELSE <<>>)
  /\ [][\A i \in Ids :
          SearchStep(i) =>
            /\ UNCHANGED storeVars
            /\ OthersKept(cache, cache', SearchStepKey(i))]_vars

\* C30 witness: a search was answered after a cache miss and an upstream answer
\* while the store held the landmarks of a bounds query
C30_Witness ==
  /\ IsResponse /\ ret.route = "search" /\ ret.status = 200
  /\ ret.invoked = <<"searchWikipedia">>
  /\ ret.body # <<>>
  /\ landmarks # <<>>
  /\ ret.key \in DOMAIN cache

\* C31 (IdSpec): an insert of one kind advances that kind's counter by one and
\* leaves the other two counters and the other two collections as they were;
\* the k-th road inserted gets id k, whatever was written of the other kinds.
C31_IdSequencesIndependent ==
  /\ [](ret.op = "addRoad" => ret.val.id = Cardinality(DOMAIN roads))
  /\ [](ret.op = "addLandmark" => ret.val.id = Cardinality(DOMAIN landmarks))
  /\ [][/\ (landmarks' # landmarks \/ landmarksCurrentId' # landmarksCurrentId) =>
            /\ landmarksCurrentId' = landmarksCurrentId + 1
            /\ UNCHANGED <<roads, roadsCurrentId, cache, cacheCurrentId>>
        /\ (roads' # roads \/ roadsCurrentId' # roadsCurrentId) =>
            /\ roadsCurrentId' = roadsCurrentId + 1
            /\ UNCHANGED <<landmarks, landmarksCurrentId, cache, cacheCurrentId>>
        /\ cacheCurrentId' # cacheCurrentId =>
            /\ cacheCurrentId' = cacheCurrentId + 1
            /\ UNCHANGED <<landmarks, landmarksCurrentId, roads, roadsCurrentId>>]_vars

\* C31 witness: the first road inserted got id 1 after two landmarks and two
\* cache entries were written
C31_Witness ==
  /\ ret.op = "addRoad" /\ ret.val.id = 1
  /\ landmarksCurrentId = 3
  /\ cacheCurrentId = 3

\* a step of a handler that found its entry in the cache: the lookup, or the reply
HitStep(i) ==
  \/ i \notin DOMAIN reqs /\ i \in DOMAIN reqs' /\ reqs'[i].cachedData # Undefined
  \/ i \in DOMAIN reqs /\ reqs[i].cachedData # Undefined
       /\ (i \notin DOMAIN reqs' \/ reqs'[i] # reqs[i])

\* C32 (Spec): the steps of a query served from the cache leave the stores, the
\* counters and every cache entry as they were; the query inserts nothing and
\* writes no cache entry; and an entry's expiresAt stays 3600 s after its
\* write, however often it was read.
C32_CacheHitChangesNothing ==
  /\ [][\A i \in Ids : HitStep(i) => UNCHANGED <<storeVars, cache, cacheCurrentId>>]_vars
  /\ []((IsResponse /\ ret.cachedData # Undefined) =>
          /\ ret.via = "cache"
          /\ ret.inserted = <<>> /\ ret.wrote = 0 /\ ret.invoked = <<>>
          /\ ret.key \in DOMAIN cache
          /\ cache[ret.key] = ret.cachedData)
  /\ [](\A k \in DOMAIN cache :
          /\ WritesOf(k) # <<>>
          /\ cache[k].expiresAt = WritesOf(k)[Len(WritesOf(k))].at + 3600)

\* C32 witness: a road query served from the cache one second after the entry
\* was written, the entry still expiring at second 3600
C32_Witness ==
  /\ IsResponse /\ ret.route = "roads" /\ ret.via = "cache"
  /\ now = 1
  /\ cache[ret.key].expiresAt = 3600

\* C33 (CacheSpec): a cleanExpiredCache() pass changes what getCache returns
\* for no key at that time value; and what a getCache returns is fixed by the
\* key's last set not followed by an invalidate and by the time alone, so it
\* is the same with passes inserted anywhere as without them.
C33_SweepInvisibleToReaders ==
  /\ ret.op = "cleanExpiredCache" =>
       \A k \in DOMAIN ret.before \cup Keys :
         getCache(cache, k, now) = getCache(ret.before, k, now)
  /\ ret.op = "getCache" =>
       IF ret.arg \in DOMAIN lastSet /\ ~(lastSet[ret.arg].expiresAt < now)
       THEN /\ ret.val # Undefined
            /\ ret.val.data = lastSet[ret.arg].data
            /\ ret.val.expiresAt = lastSet[ret.arg].expiresAt
       ELSE ret.val = Undefined

\* C33 witness: a pass removed an expired entry and kept one that expires this
\* second, which getCache still returns
C33_Witness ==
  /\ ret.op = "cleanExpiredCache"
  /\ DOMAIN ret.before \ DOMAIN cache # {}
  /\ \E k \in DOMAIN cache : cache[k].expiresAt = now /\ getCache(cache, k, now) = cache[k]

Inside(l, params) ==
  /\ NumberOf(params[1]) <= l.coordinates[1] /\ l.coordinates[1] <= NumberOf(params[3])
  /\ NumberOf(params[2]) <= l.coordinates[2] /\ l.coordinates[2] <= NumberOf(params[4])

\* C34 (Spec): every landmark in a 200 response to a bounds query lies inside
\* the queried bounds, whether it came from the cache, the store or a fresh
\* fetch, and so does every landmark in an entry written under a bounds key.
C34_ResponseInsideBounds ==
  /\ (IsResponse /\ ret.route = "landmarks" /\ ret.status = 200) =>
       \A n \in 1..Len(ret.body) : Inside(ret.body[n], ret.params)
  /\ \A k \in DOMAIN writes : \A n \in 1..Len(writes[k]) :
       writes[k][n].route = "landmarks" =>
         \A m \in 1..Len(writes[k][n].data) :
           Inside(writes[k][n].data[m], writes[k][n].params)

\* C35 (RoadSpec): with road queries handled one after another, only the first
\* one fetches and inserts; every later one, also after the entry expired or
\* was removed by a pass, is answered 200 with the stored roads from the cache
\* or the store and inserts nothing, and the stored roads never change again.
C35_RoadsFetchedOnce ==
  /\ []((IsResponse /\ ret.route = "roads") =>
          /\ ret.status = 200
          /\ Len(ret.body) = Len(FixtureNames)
          /\ Cardinality(DOMAIN roads) = Len(FixtureNames)
          /\ IF ret.id = 1
             THEN ret.via = "fetch" /\ Len(ret.inserted) = Len(FixtureNames)
             ELSE /\ ret.via \in {"cache", "store"}
                  /\ ret.invoked = <<>>
                  /\ ret.inserted = <<>>)
  /\ [][Cardinality(DOMAIN roads) = Len(FixtureNames) =>
          roads' = roads /\ roadsCurrentId' = roadsCurrentId]_vars

\* C35 witness: the third road query was answered from the store after the
\* entry expired, the second one having been served from the cache
C35_Witness ==
  /\ IsResponse /\ ret.route = "roads" /\ ret.id = 3 /\ ret.via = "store"
  /\ Len(WritesOf(roadsKey)) = 2
  /\ Cardinality(DOMAIN roads) = Len(FixtureNames)

\* C36 (ReplySpec): every request is answered exactly once: a request whose
\* handler is in flight is eventually answered; a response is sent only at
\* the step that ends its request's handler, or at the receipt of a request
\* that fails validation; a handler ends only with its response; and an ended
\* request is never in flight again.
C36_ExactlyOneResponse ==
  /\ \A i \in 1..MaxReplyReq :
       (i \in DOMAIN reqs) ~> (IsResponse /\ ret.id = i)
  /\ [][\A i \in 1..MaxReplyReq :
          /\ (ret'.op = "response" /\ ret'.id = i) =>
               /\ i \notin DOMAIN reqs'
               /\ \/ i \in DOMAIN reqs
                  \/ received = i - 1 /\ received' = i /\ ret'.status = 400
          /\ (i \in DOMAIN reqs /\ i \notin DOMAIN reqs') =>
               ret'.op = "response" /\ ret'.id = i
          /\ (received = i - 1 /\ received' = i) =>
               \/ i \in DOMAIN reqs'
               \/ ret'.op = "response" /\ ret'.id = i
          /\ (i \in DOMAIN reqs' /\ i \notin DOMAIN reqs) =>
               received = i - 1 /\ received' = i]_vars

\* C36 witness: the second request was answered 500 from the catch after the
\* first one had been answered
C36_Witness ==
  /\ IsResponse /\ ret.id = 2 /\ ret.status = 500 /\ ret.raised
  /\ reqs = <<>>

\* C37 (ClientSpec): the message shown last stays visible, with its own text,
\* until its own duration has elapsed, unless the user closed the panel; the
\* timer of an earlier message does not hide it.
C37_MessageVisibleForItsDuration ==
  shown # <<>> =>
    LET last == shown[Len(shown)]
    IN  (~last.closed /\ clientNow < last.due) =>
          isInfoVisible /\ infoMessage = last.message

====
